---- MODULE Spec2Model ----
(***************************************************************************)
(* State-machine model of @litesql/ha: the HAClient request multiplexer,   *)
(* the EmbeddedReplicasManager registry and the HAConnection router.       *)
(***************************************************************************)
EXTENDS Integers, Sequences, FiniteSets, TLC

\* ------------------------------------------------------------------ bounds
\* Number of send calls one HAClient issues in a behaviour of SpecMux.
MaxCalls == 2
\* Number of send calls the connection forwards in a behaviour of Spec.
MaxForwarded == 1
\* Largest replication sequence number carried by a response or feed message.
MaxSeq == 2
\* Number of load calls (one per getConnection) in a behaviour of SpecLoad.
MaxLoads == 2

\* ------------------------------------------------------- program constants
\* options.timeout ?? 30
DefaultTimeout == 30

\* ------------------------------------------------------------------ values
Nil == "nil"
NoStream == 0
NoCall == 0

\* QueryType enum
QUERY_TYPE_UNSPECIFIED == 0
QUERY_TYPE_EXEC_QUERY == 1
QUERY_TYPE_EXEC_UPDATE == 2

\* Catalog names a URL path or setCatalog can carry; "" is the empty name.
Catalogs == {"", "a", "b"}

\* Timeouts (seconds) a client can be configured with.
Timeouts == {DefaultTimeout, 5}

\* ------------------------------------------------------------- SQL strings
\* A statement is a sequence of one-character strings.
Whitespace == {" ", "\t", "\n"}

toUpperCaseChar(ch) ==
    CASE ch = "s" -> "S" [] ch = "e" -> "E" [] ch = "l" -> "L"
      [] ch = "c" -> "C" [] ch = "t" -> "T" [] ch = "w" -> "W"
      [] ch = "i" -> "I" [] ch = "h" -> "H" [] ch = "d" -> "D"
      [] ch = "n" -> "N" [] ch = "r" -> "R" [] ch = "p" -> "P"
      [] ch = "a" -> "A" [] ch = "g" -> "G" [] ch = "m" -> "M"
      [] ch = "u" -> "U" [] ch = "x" -> "X" [] ch = "o" -> "O"
      [] OTHER -> ch

toUpperCase(s) == [i \in 1..Len(s) |-> toUpperCaseChar(s[i])]

RECURSIVE trimStart(_)
trimStart(s) ==
    IF s # <<>> /\ Head(s) \in Whitespace THEN trimStart(Tail(s)) ELSE s

RECURSIVE trimEnd(_)
trimEnd(s) ==
    IF s # <<>> /\ s[Len(s)] \in Whitespace
    THEN trimEnd(SubSeq(s, 1, Len(s) - 1))
    ELSE s

trim(s) == trimEnd(trimStart(s))

startsWith(s, prefix) ==
    /\ Len(s) >= Len(prefix)
    /\ SubSeq(s, 1, Len(prefix)) = prefix

KW_SELECT == <<"S", "E", "L", "E", "C", "T">>
KW_PRAGMA == <<"P", "R", "A", "G", "M", "A">>
KW_EXPLAIN == <<"E", "X", "P", "L", "A", "I", "N">>
KW_WITH == <<"W", "I", "T", "H">>

\* HAConnection.isSelectQuery
isSelectQuery(sql) ==
    LET trimmed == toUpperCase(trim(sql))
    IN  \/ startsWith(trimmed, KW_SELECT)
        \/ startsWith(trimmed, KW_PRAGMA)
        \/ startsWith(trimmed, KW_EXPLAIN)
        \/ startsWith(trimmed, KW_WITH)

\* "  select 1"
SqlSelect == <<" ", " ", "s", "e", "l", "e", "c", "t", " ", "1">>
\* "INSERT t"
SqlInsert == <<"I", "N", "S", "E", "R", "T", " ", "t">>
\* "with d delete t": a common-table-expression prefix on a DELETE
SqlWithDelete ==
    <<"w", "i", "t", "h", " ", "d", " ", "d", "e", "l", "e", "t", "e", " ", "t">>
Statements == {SqlSelect, SqlInsert, SqlWithDelete}

\* Statements handed to the HAClient directly.
ClientStatements == {SqlSelect}

\* ---------------------------------------------------------------- variables
VARIABLES
    \* HAClient
    requestStream,    \* the stream handle, NoStream when null
    responsePromise,  \* the call whose {resolve, reject} record is installed
    replicationID,
    txseq,
    timeout,
    \* the gRPC streams opened by initQueryStream and the promises of send
    streams,
    calls,
    \* HAConnection
    conn,             \* "none" before new HAConnection(options), then "open"
    embeddedReplica,  \* the read-only handle, Nil when null
    replicasManager,  \* TRUE when the connection holds the registry
    routed,           \* where the last statement of query/run/execute went
    autoCommit,
    readOnly,
    awaiting,         \* call -> the HAConnection method awaiting its promise
    \* EmbeddedReplicasManager (the process-wide instance)
    replicas,         \* Map name -> ReplicaConnection
    consumers,        \* names with a running feed subscription
    updateInterval,   \* TRUE while the reconciliation timer is set
    natsConnection,   \* TRUE while a feed connection is held
    consoleErrors,    \* the kinds of failure console.error has reported
    \* the replica directory and the ha_stats row of each database file
    dir,
    dbSeq,
    \* what the last handler did to its collaborators (feed message, timers,
    \* handles) and what it returned or threw, in program order
    effects,
    \* the converter: the value handed to toAny, the envelope it returned and
    \* the value fromAny returned for that envelope
    codecValue,
    codecAny,
    codecResult,
    \* the feed loops: the messages the consumer of each replica name holds
    \* for its loop, where each loop stands, and the applications begun and
    \* finished so far, in the order they happened
    inbox,
    loopAt,
    journal,
    \* what the 'data' listener has seen: per catalog the last sequence a
    \* response to a request for that catalog carried, and the largest
    \* sequence any response carried
    observedFor,
    highestSeen,
    \* what load has acquired and close has not released: per file the
    \* writable handles open on it and the feed subscriptions consuming for
    \* it, the intervals set, and where each load call stands at its awaits
    handles,
    subscriptions,
    timers,
    loadAt

clientVars == <<requestStream, responsePromise, replicationID, txseq, timeout,
                streams, calls>>
connVars == <<conn, embeddedReplica, replicasManager, routed, autoCommit, readOnly,
              awaiting>>
registryVars == <<replicas, consumers, updateInterval, natsConnection,
                  consoleErrors>>
diskVars == <<dir, dbSeq>>
codecVars == <<codecValue, codecAny, codecResult>>
feedVars == <<inbox, loopAt, journal>>
seenVars == <<observedFor, highestSeen>>
loadVars == <<handles, subscriptions, timers, loadAt>>

vars == <<clientVars, connVars, registryVars, diskVars, effects, codecVars,
          feedVars, seenVars, loadVars>>

\* No value converted yet, no envelope produced yet.
NoJsValue == [type |-> "undefined", neg |-> FALSE, bits |-> <<>>]
NoAny == [type_url |-> "", value |-> <<>>]

\* The converter at rest: no handler of the client, the connection or the
\* registry has a value in conversion.
codecIdle ==
    /\ codecValue = NoJsValue
    /\ codecAny = NoAny
    /\ codecResult = NoJsValue

\* No response has reached the 'data' listener yet.
nothingSeen ==
    /\ observedFor = [c \in Catalogs |-> 0]
    /\ highestSeen = 0

\* A stream as the transport holds it: the requests written to it, how many
\* of them the authority has answered, whether it has emitted 'error', 'end'.
NewStream == [written |-> <<>>, delivered |-> 0, errored |-> FALSE, ended |-> FALSE]

\* What a promise of send is settled with: a QueryResponse (req names the call
\* whose request the authority answered with it) or an Error.
NoValue == [kind |-> "none", req |-> NoCall, txseq |-> 0, error |-> "", seconds |-> 0]
QueryResponse(req, seq, error) ==
    [kind |-> "response", req |-> req, txseq |-> seq, error |-> error, seconds |-> 0]
\* new Error(`Query timeout after ${this.timeout} seconds`)
TimeoutError ==
    [kind |-> "timeout", req |-> NoCall, txseq |-> 0, error |-> "", seconds |-> timeout]
\* the Error the transport hands to the 'error' listener
TransportError ==
    [kind |-> "transport", req |-> NoCall, txseq |-> 0, error |-> "", seconds |-> 0]

CallIds == 1..Len(calls)
Pending(c) == calls[c].state = "pending"

\* ------------------------------------------------------------------ HAClient
\* HAClient.send: the synchronous part up to the write (the function has no
\* await before the Promise executor, which runs synchronously).
send(sql, type) ==
    LET opened == IF requestStream = NoStream
                  THEN Append(streams, NewStream)     \* initQueryStream()
                  ELSE streams
        rs == IF requestStream = NoStream THEN Len(opened) ELSE requestStream
        id == Len(calls) + 1
        request == [replication_id |-> replicationID, sql |-> sql, type |-> type]
    IN  /\ calls' = Append(calls,
                      [request |-> request,
                       stream |-> rs,
                       \* whether every earlier call had settled at this send
                       serial |-> \A c \in CallIds : ~Pending(c),
                       state |-> "pending",
                       value |-> NoValue,
                       timer |-> "armed",
                       settles |-> 0])
        /\ responsePromise' = id
        /\ streams' = [opened EXCEPT ![rs].written = Append(@, id)]
        /\ requestStream' = rs

\* The record's resolve wrapper: clearTimeout, then resolve (a no-op on a
\* promise that is already settled).
recordResolve(cs, c, response) ==
    [cs EXCEPT ![c] =
        [@ EXCEPT !.timer = IF @ = "armed" THEN "cleared" ELSE @,
                  !.state = IF cs[c].state = "pending" THEN "resolved" ELSE @,
                  !.value = IF cs[c].state = "pending" THEN response ELSE @,
                  !.settles = @ + 1]]

\* a reject wrapper that clears the timer and leaves the promise alone
recordRejectTimerOnly(cs, c, err) ==
    [cs EXCEPT ![c] =
        [@ EXCEPT !.timer = IF @ = "armed" THEN "cleared" ELSE @]]

\* The record's reject wrapper.
recordReject(cs, c, err) ==
    [cs EXCEPT ![c] =
        [@ EXCEPT !.timer = IF @ = "armed" THEN "cleared" ELSE @,
                  !.state = IF cs[c].state = "pending" THEN "rejected" ELSE @,
                  !.value = IF cs[c].state = "pending" THEN err ELSE @,
                  !.settles = @ + 1]]

\* txseq after the 'data' listener has seen a response
dataTxseq(response) == IF response.txseq > 0 THEN response.txseq ELSE txseq

\* the catalog a response is for: the replication_id of the request it answers
catalogOf(response) == calls[response.req].request.replication_id

\* the sequences observed per catalog once the listener has seen a response
seenFor(response) ==
    IF response.txseq > 0
    THEN [observedFor EXCEPT ![catalogOf(response)] = response.txseq]
    ELSE observedFor

\* requestStream.on('data'): the authority answers the oldest unanswered
\* request of stream s.
onData(s, seq, error) ==
    /\ s \in 1..Len(streams)
    /\ ~streams[s].errored /\ ~streams[s].ended
    /\ streams[s].delivered < Len(streams[s].written)
    /\ LET response == QueryResponse(streams[s].written[streams[s].delivered + 1],
                                      seq, error)
       IN  /\ streams' = [streams EXCEPT ![s].delivered = @ + 1]
           /\ txseq' = dataTxseq(response)
           /\ IF responsePromise # NoCall
              THEN /\ calls' = recordResolve(calls, responsePromise, response)
                   /\ responsePromise' = NoCall
              ELSE UNCHANGED <<calls, responsePromise>>
           /\ observedFor' = seenFor(response)
           /\ highestSeen' = IF response.txseq > highestSeen
                             THEN response.txseq
                             ELSE highestSeen
    /\ effects' = <<>>
    /\ UNCHANGED <<requestStream, replicationID, timeout>>
    /\ UNCHANGED <<codecVars, feedVars, loadVars>>

\* requestStream.on('error')
onError(s) ==
    /\ s \in 1..Len(streams)
    /\ ~streams[s].errored /\ ~streams[s].ended
    /\ streams' = [streams EXCEPT ![s].errored = TRUE]
    /\ IF responsePromise # NoCall
       THEN /\ calls' = recordReject(calls, responsePromise, TransportError)
            /\ responsePromise' = NoCall
       ELSE UNCHANGED <<calls, responsePromise>>
    /\ effects' = <<>>
    /\ UNCHANGED <<requestStream, replicationID, txseq, timeout>>
    /\ UNCHANGED <<codecVars, feedVars, seenVars, loadVars>>

\* requestStream.on('end')
onEnd(s) ==
    /\ s \in 1..Len(streams)
    /\ ~streams[s].ended
    /\ streams' = [streams EXCEPT ![s].ended = TRUE]
    /\ requestStream' = NoStream
    /\ effects' = <<>>
    /\ UNCHANGED <<responsePromise, replicationID, txseq, timeout, calls>>
    /\ UNCHANGED <<codecVars, feedVars, seenVars, loadVars>>

\* a timeout error that names the delay handed to setTimeout
TimeoutErrorMillis == [TimeoutError EXCEPT !.seconds = timeout * 1000]

\* the error the timer callback rejects with
timeoutRejection == TimeoutError

\* The setTimeout callback of call c: reject(new Error(...)).
onTimeout(c) ==
    /\ c \in CallIds
    /\ calls[c].timer = "armed"
    /\ calls' = [calls EXCEPT ![c] =
                    [@ EXCEPT !.timer = "fired",
                              !.state = IF @ = "pending" THEN "rejected" ELSE @,
                              !.value = IF calls[c].state = "pending"
                                        THEN timeoutRejection ELSE @,
                              !.settles = @ + 1]]
    /\ effects' = <<>>
    /\ UNCHANGED <<requestStream, responsePromise, replicationID, txseq, timeout,
                   streams>>
    /\ UNCHANGED <<codecVars, feedVars, seenVars, loadVars>>

\* HAClient.executeQuery / executeUpdate / execute up to their await
executeQuery(sql) ==
    /\ send(sql, QUERY_TYPE_EXEC_QUERY)
    /\ effects' = <<>>
    /\ UNCHANGED <<replicationID, txseq, timeout>>
    /\ UNCHANGED <<codecVars, feedVars, seenVars, loadVars>>

executeUpdate(sql) ==
    /\ send(sql, QUERY_TYPE_EXEC_UPDATE)
    /\ effects' = <<>>
    /\ UNCHANGED <<replicationID, txseq, timeout>>
    /\ UNCHANGED <<codecVars, feedVars, seenVars, loadVars>>

execute(sql) ==
    /\ send(sql, QUERY_TYPE_UNSPECIFIED)
    /\ effects' = <<>>
    /\ UNCHANGED <<replicationID, txseq, timeout>>
    /\ UNCHANGED <<codecVars, feedVars, seenVars, loadVars>>

\* --------------------------------------------------- the replica directory
\* Replication IDs of the authority, each the name of a snapshot file.
ReplicationIDs == {"a", "b"}

\* Files of the directory that are no database: too short, or without magic.
OtherFiles == {"x", "y"}

\* A file that starts like a database but that the engine fails to open
\* (new Database or its first pragma throws on it).
CorruptFiles == {"z"}

\* isSqliteFile: stats.size < 100 is refused
MinSqliteSize == 100

\* isSqliteFile reads Buffer.alloc(16) from the start of the file
HeaderBytes == 16

\* 'SQLite format 3'
SqliteMagic ==
    <<"S", "Q", "L", "i", "t", "e", " ", "f", "o", "r", "m", "a", "t", " ", "3">>

\* the 16-byte header string of a database file: the magic and a zero byte
DatabaseHeader == SqliteMagic \o <<"NUL">>

\* size and first bytes of a file of the directory
fileSize(f) == IF f = "x" THEN 64 ELSE 4096
fileHeader(f) ==
    IF f = "y"
    THEN <<"n", "o", "t", " ", "a", " ", "d", "a", "t", "a", "b", "a", "s", "e",
           " ", "f", "i", "l", "e">>
    ELSE DatabaseHeader \o <<"NUL", "NUL", "NUL", "NUL">>

\* isSqliteFile without the comparison of the header
isSqliteFileSizeOnly(f) ==
    IF fileSize(f) < MinSqliteSize THEN FALSE ELSE TRUE

\* EmbeddedReplicasManager.isSqliteFile
isSqliteFile(f) ==
    IF fileSize(f) < MinSqliteSize
    THEN FALSE
    ELSE startsWith(SubSeq(fileHeader(f), 1, HeaderBytes), SqliteMagic)

\* whether new Database(filePath) and the pragmas of load succeed on f: the
\* engine opens the database snapshots and throws on every other file
opens(f) == f \notin OtherFiles \cup CorruptFiles

\* The received_seq of the ha_stats row a database holds; NoRow when the table
\* or the row is absent.
NoRow == -1
StatsRows == {NoRow} \cup 0..MaxSeq

\* a test that skips the download when an override is requested
skipsDownloadOnOverride(id, override) == override /\ id \in dir

\* downloadReplica returns at once: !override && fs.existsSync(filePath)
skipsDownload(id, override) == ~override /\ id \in dir

\* what downloadReplica does: the early return, or the Download call followed
\* by the rejection ('error') or by the write of the file and the resolution
downloadEffects(id, override, failed) ==
    IF skipsDownload(id, override) THEN <<"return">>
    ELSE IF failed THEN <<"client.Download", "reject">>
    ELSE <<"client.Download", "fs.writeFileSync", "resolve">>

\* HAClient.downloadReplica; snapshot is the ha_stats row of the downloaded
\* database, failed a download that ends in 'error'.
downloadReplica(id, override, failed, snapshot) ==
    /\ IF skipsDownload(id, override)
       THEN UNCHANGED diskVars
       ELSE IF failed
            THEN UNCHANGED diskVars
            ELSE /\ dir' = dir \cup {id}
                 /\ dbSeq' = [dbSeq EXCEPT ![id] = snapshot]
    /\ effects' = downloadEffects(id, override, failed)
    /\ UNCHANGED <<codecVars, feedVars, seenVars, loadVars>>

\* ---------------------------------------------------- EmbeddedReplicasManager
EmptyMap == [n \in {} |-> Nil]

\* the initial txseq read in load: the row's received_seq, 0 without a row
initialTxseq(f) == IF dbSeq[f] # NoRow THEN dbSeq[f] ELSE 0

\* the files one load call registers: those of the directory that are not yet
\* registered, pass isSqliteFile and open (the catch of the loop body logs and
\* skips the others)
loadedFiles ==
    {f \in dir : f \notin DOMAIN replicas /\ isSqliteFile(f) /\ opens(f)}

\* Every name the directory can hold, in the order readdirSync lists them.
Files == ReplicationIDs \cup OtherFiles \cup CorruptFiles
ListingOrder == <<"a", "b", "x", "y", "z">>

\* fs.readdirSync(dir)
readdirSync == SelectSeq(ListingOrder, LAMBDA f : f \in dir)

\* A load call: not made yet (pc = "idle"), at await connect ("connect"), at
\* await subscribeToReplication for file ("subscribe"), subscribed and about
\* to go on with the files of rest ("resume"), returned ("done") or thrown
\* because connect rejected ("thrown").
NoLoad == [pc |-> "idle", rest |-> <<>>, file |-> ""]

\* Nothing loaded and no load call made.
loadIdle ==
    /\ handles = [f \in Files |-> 0]
    /\ subscriptions = [f \in Files |-> 0]
    /\ timers = 0
    /\ loadAt = [l \in 1..MaxLoads |-> NoLoad]

\* the loop of load that passes over no registered name
skipsUnreadableOnly(f) == ~isSqliteFile(f)

\* the two continue statements of the loop of load (every name of the
\* directory is a regular file)
skips(f) == f \in DOMAIN replicas \/ ~isSqliteFile(f)

\* EmbeddedReplicasManager.startTxseqUpdater
startTxseqUpdater ==
    IF updateInterval
    THEN UNCHANGED <<updateInterval, timers>>
    ELSE /\ updateInterval' = TRUE
         /\ timers' = timers + 1

\* EmbeddedReplicasManager.load; failing are the files whose subscription the
\* feed refuses (subscribeToReplication logs and returns).
load(failing) ==
    LET candidates == {f \in dir : f \notin DOMAIN replicas /\ isSqliteFile(f)}
        fresh == loadedFiles
    IN  /\ natsConnection' = TRUE
        /\ replicas' = [f \in DOMAIN replicas \cup fresh |->
                          IF f \in fresh
                          THEN [txseq |-> initialTxseq(f), dsn |-> f]
                          ELSE replicas[f]]
        /\ handles' = [f \in Files |->
                          IF f \in fresh THEN handles[f] + 1 ELSE handles[f]]
        /\ consumers' = consumers \cup (fresh \ failing)
        /\ subscriptions' = [f \in Files |->
                                IF f \in fresh \ failing
                                THEN subscriptions[f] + 1
                                ELSE subscriptions[f]]
        /\ consoleErrors' =
              consoleErrors
                 \cup (IF candidates # fresh THEN {"load"} ELSE {})
                 \cup (IF fresh \cap failing # {} THEN {"subscribe"} ELSE {})
        /\ startTxseqUpdater
        /\ effects' = <<>>
        /\ UNCHANGED diskVars
        /\ UNCHANGED <<codecVars, feedVars, seenVars, loadAt>>

\* load, from its call to await connect (the directory exists in every state)
loadCall(l) ==
    /\ loadAt[l].pc = "idle"
    /\ loadAt' = [loadAt EXCEPT ![l].pc = "connect"]
    /\ effects' = <<"connect">>
    /\ UNCHANGED <<registryVars, diskVars, handles, subscriptions, timers>>
    /\ UNCHANGED <<codecVars, feedVars, seenVars>>

\* what the loop of load does with a name of the directory
visit(f) ==
    IF f \in DOMAIN replicas THEN "replicas.has"
    ELSE IF ~isSqliteFile(f) THEN "isSqliteFile"
    ELSE IF opens(f) THEN "replicas.set"
    ELSE "console.error"

\* The loop of load from the names of rest up to its next await: the names
\* it skips, the names whose database fails to open (logged), then either the
\* first name it registers, left at await subscribeToReplication, or the end
\* of the loop, startTxseqUpdater and the return.
loadLoop(l, rest) ==
    LET opening == {i \in 1..Len(rest) : ~skips(rest[i]) /\ opens(rest[i])}
        stop == IF opening = {} THEN Len(rest) + 1
                ELSE CHOOSE i \in opening : \A j \in opening : i <= j
        thrown == {i \in 1..(stop - 1) : ~skips(rest[i])}
    IN  /\ consoleErrors' =
              consoleErrors \cup (IF thrown # {} THEN {"load"} ELSE {})
        /\ effects' = [i \in 1..(IF opening = {} THEN Len(rest) ELSE stop) |->
                          visit(rest[i])]
        /\ IF opening = {}
           THEN /\ startTxseqUpdater
                /\ loadAt' = [loadAt EXCEPT ![l] =
                                 [pc |-> "done", rest |-> <<>>, file |-> ""]]
                /\ UNCHANGED <<replicas, handles>>
           ELSE /\ handles' = [handles EXCEPT ![rest[stop]] = @ + 1]
                /\ replicas' =
                      [f \in DOMAIN replicas \cup {rest[stop]} |->
                          IF f = rest[stop]
                          THEN [txseq |-> initialTxseq(f), dsn |-> f]
                          ELSE replicas[f]]
                /\ loadAt' = [loadAt EXCEPT ![l] =
                                 [pc |-> "subscribe",
                                  rest |-> SubSeq(rest, stop + 1, Len(rest)),
                                  file |-> rest[stop]]]
                /\ UNCHANGED <<updateInterval, timers>>

\* load when connect settles: it throws on a rejection, else it keeps the
\* connection, lists the directory and enters its loop
loadConnect(l, ok) ==
    /\ loadAt[l].pc = "connect"
    /\ IF ok
       THEN /\ natsConnection' = TRUE
            /\ loadLoop(l, readdirSync)
       ELSE /\ loadAt' = [loadAt EXCEPT ![l].pc = "thrown"]
            /\ effects' = <<"throw">>
            /\ UNCHANGED <<replicas, updateInterval, natsConnection,
                           consoleErrors, handles, timers>>
    /\ UNCHANGED <<consumers, subscriptions, diskVars>>
    /\ UNCHANGED <<codecVars, feedVars, seenVars>>

\* subscribeToReplication when the feed settles consumers.get and consume:
\* the subscription is kept under the name and its loop started, or the
\* failure is logged
subscribeToReplication(l, ok) ==
    /\ loadAt[l].pc = "subscribe"
    /\ IF ok
       THEN /\ subscriptions' =
                  [subscriptions EXCEPT ![loadAt[l].file] = @ + 1]
            /\ consumers' = consumers \cup {loadAt[l].file}
            /\ UNCHANGED consoleErrors
       ELSE /\ consoleErrors' = consoleErrors \cup {"subscribe"}
            /\ UNCHANGED <<consumers, subscriptions>>
    /\ loadAt' = [loadAt EXCEPT ![l].pc = "resume"]
    /\ effects' = <<>>
    /\ UNCHANGED <<replicas, updateInterval, natsConnection, diskVars,
                   handles, timers>>
    /\ UNCHANGED <<codecVars, feedVars, seenVars>>

\* load after await subscribeToReplication: the loop goes on
loadResume(l) ==
    /\ loadAt[l].pc = "resume"
    /\ loadLoop(l, loadAt[l].rest)
    /\ UNCHANGED <<consumers, natsConnection, subscriptions, diskVars>>
    /\ UNCHANGED <<codecVars, feedVars, seenVars>>

\* close that closes the feed connection before the database handles
closeEffectsNatsEarly ==
    (IF updateInterval THEN <<"clearInterval">> ELSE <<>>)
       \o [i \in 1..Cardinality(consumers) |-> "consumer.stop"]
       \o (IF natsConnection THEN <<"natsConnection.close">> ELSE <<>>)
       \o [i \in 1..Cardinality(DOMAIN replicas) |-> "db.close"]

\* the calls of close, in program order
closeEffects ==
    (IF updateInterval THEN <<"clearInterval">> ELSE <<>>)
       \o [i \in 1..Cardinality(consumers) |-> "consumer.stop"]
       \o [i \in 1..Cardinality(DOMAIN replicas) |-> "db.close"]
       \o (IF natsConnection THEN <<"natsConnection.close">> ELSE <<>>)

\* EmbeddedReplicasManager.close
close ==
    /\ effects' = closeEffects
    /\ updateInterval' = FALSE
    /\ timers' = IF updateInterval THEN timers - 1 ELSE timers
    /\ consumers' = {}
    /\ subscriptions' = [f \in Files |->
                            IF f \in consumers
                            THEN subscriptions[f] - 1
                            ELSE subscriptions[f]]
    /\ replicas' = EmptyMap
    /\ handles' = [f \in Files |->
                      IF f \in DOMAIN replicas
                      THEN handles[f] - 1
                      ELSE handles[f]]
    /\ natsConnection' = FALSE
    /\ inbox' = [n \in ReplicationIDs |-> <<>>]       \* consumer.stop()
    /\ UNCHANGED <<consoleErrors, diskVars>>
    /\ UNCHANGED <<codecVars, loopAt, journal, seenVars, loadAt>>

\* A feed message: json is FALSE for a payload JSON.parse rejects (it has no
\* fields then); sql is "" when absent, "bad" a statement db.exec throws on;
\* stats is the ha_stats row the statement writes (NoRow: none, and none
\* unless the statement executes); txseq is 0 when absent.
Messages ==
    {m \in [json : BOOLEAN, sql : {"", "ok", "bad"}, stats : StatsRows,
            txseq : 0..MaxSeq] :
        /\ m.sql # "ok" => m.stats = NoRow
        /\ ~m.json => (m.sql = "" /\ m.txseq = 0)}

\* whether applyReplicationMessage throws on msg
applyThrows(name, msg) ==
    /\ name \in DOMAIN replicas
    /\ \/ ~msg.json
       \/ msg.sql = "bad"

\* the tracked sequence applyReplicationMessage leaves on the replica
appliedTxseq(replica, msg) ==
    IF msg.txseq # 0 THEN msg.txseq ELSE replica.txseq

\* applyReplicationMessage that assigns the tracked sequence before it
\* executes the statement
applyReplicationMessageSeqFirst(name, msg) ==
    IF name \notin DOMAIN replicas \/ ~msg.json
    THEN UNCHANGED <<replicas, dbSeq>>
    ELSE /\ dbSeq' = IF msg.sql = "ok" /\ msg.stats # NoRow
                     THEN [dbSeq EXCEPT ![replicas[name].dsn] = msg.stats]
                     ELSE dbSeq
         /\ replicas' = [replicas EXCEPT ![name].txseq =
                            appliedTxseq(replicas[name], msg)]

\* EmbeddedReplicasManager.applyReplicationMessage
applyReplicationMessage(name, msg) ==
    IF name \notin DOMAIN replicas \/ applyThrows(name, msg)
    THEN UNCHANGED <<replicas, dbSeq>>
    ELSE /\ dbSeq' = IF msg.sql # "" /\ msg.stats # NoRow
                     THEN [dbSeq EXCEPT ![replicas[name].dsn] = msg.stats]
                     ELSE dbSeq
         /\ replicas' = [replicas EXCEPT ![name].txseq =
                            appliedTxseq(replicas[name], msg)]

\* a loop body that acknowledges in a finally clause
loopEffectsAckAlways(name, msg) ==
    IF applyThrows(name, msg) THEN <<"console.error", "msg.ack">> ELSE <<"msg.ack">>

\* what the body of the for-await loop does after applyReplicationMessage:
\* msg.ack() when it returned, console.error in the catch when it threw
loopEffects(name, msg) ==
    IF applyThrows(name, msg) THEN <<"console.error">> ELSE <<"msg.ack">>

\* One turn of the loop subscribeToReplication starts for replicaName.
feedDeliver(name, msg) ==
    /\ name \in consumers
    /\ applyReplicationMessage(name, msg)
    /\ effects' = loopEffects(name, msg)
    /\ consoleErrors' = IF applyThrows(name, msg)
                        THEN consoleErrors \cup {"apply"}
                        ELSE consoleErrors
    /\ UNCHANGED <<consumers, updateInterval, natsConnection, dir>>
    /\ UNCHANGED <<codecVars, feedVars, seenVars, loadVars>>

\* The feed loops. A delivery is a message and its number in the order the
\* consumer handed messages out; a loop stands at the head of its for-await
\* (at = "next") or at the await of applyReplicationMessage (at = "await",
\* with the delivery in hand and whether its application threw).
NoMessage == [json |-> FALSE, sql |-> "", stats |-> NoRow, txseq |-> 0, topic |-> ""]
NoDelivery == [k |-> 0, msg |-> NoMessage]
LoopIdle == [at |-> "next", d |-> NoDelivery, threw |-> FALSE]

feedIdle ==
    /\ inbox = [n \in ReplicationIDs |-> <<>>]
    /\ loopAt = [n \in ReplicationIDs |-> LoopIdle]
    /\ journal = <<>>

\* the number of the last delivery handed out
lastDelivery ==
    LET ks == {0} \cup {journal[i].k : i \in 1..Len(journal)}
                  \cup UNION {{inbox[n][i].k : i \in 1..Len(inbox[n])} :
                                 n \in ReplicationIDs}
    IN  CHOOSE k \in ks : \A j \in ks : j <= k

\* consumers.get(stream, durable) and consume(): every loop reads the one
\* durable consumer of the stream, which hands msg to the loop of name
\* whatever subject msg was published on.
consume(name, msg) ==
    /\ name \in consumers
    /\ inbox' = [inbox EXCEPT ![name] = Append(@, [k |-> lastDelivery + 1,
                                                    msg |-> msg])]
    /\ effects' = <<>>
    /\ UNCHANGED <<registryVars, diskVars, loopAt, journal>>
    /\ UNCHANGED <<codecVars, seenVars, loadVars>>

\* a loop that starts the next application without awaiting the last one
loopReadyNoAwait(name) == TRUE

\* the loop of name is at the head of its for-await
loopReady(name) == loopAt[name].at = "next"

\* for await (const msg of messages): the loop takes the next delivery and
\* calls applyReplicationMessage, which runs to its end or to its throw
loopNext(name) ==
    /\ name \in consumers
    /\ loopReady(name)
    /\ inbox[name] # <<>>
    /\ LET d == Head(inbox[name])
       IN  /\ applyReplicationMessage(name, d.msg)
           /\ loopAt' = [loopAt EXCEPT ![name] =
                            [at |-> "await", d |-> d,
                             threw |-> applyThrows(name, d.msg)]]
           /\ journal' = Append(journal, [replica |-> name, event |-> "begin",
                                          k |-> d.k, topic |-> d.msg.topic])
    /\ inbox' = [inbox EXCEPT ![name] = Tail(@)]
    /\ effects' = <<>>
    /\ UNCHANGED <<consumers, updateInterval, natsConnection, consoleErrors, dir>>
    /\ UNCHANGED <<codecVars, seenVars, loadVars>>

\* the loop body after its await: msg.ack(), or console.error in the catch
loopSettle(name) ==
    /\ loopAt[name].at = "await"
    /\ loopAt' = [loopAt EXCEPT ![name] = LoopIdle]
    /\ journal' = Append(journal, [replica |-> name, event |-> "end",
                                   k |-> loopAt[name].d.k,
                                   topic |-> loopAt[name].d.msg.topic])
    /\ effects' = IF loopAt[name].threw THEN <<"console.error">> ELSE <<"msg.ack">>
    /\ consoleErrors' = IF loopAt[name].threw
                        THEN consoleErrors \cup {"apply"}
                        ELSE consoleErrors
    /\ UNCHANGED <<replicas, consumers, updateInterval, natsConnection, diskVars,
                   inbox>>
    /\ UNCHANGED <<codecVars, seenVars, loadVars>>

\* a reconciliation that resets the tracked sequence when no row is read
reconciledTxseqOrZero(replica) ==
    IF dbSeq[replica.dsn] # NoRow THEN dbSeq[replica.dsn] ELSE 0

\* the tracked sequence one reconciliation leaves on a replica: the row's
\* received_seq; unchanged when the read throws or returns no row
reconciledTxseq(replica) ==
    IF dbSeq[replica.dsn] # NoRow
    THEN dbSeq[replica.dsn]
    ELSE replica.txseq

\* the reads of one tick: one per registered replica
tickEffects == [i \in 1..Cardinality(DOMAIN replicas) |-> "db.prepare.get"]

\* The setInterval callback of startTxseqUpdater.
txseqUpdaterTick ==
    /\ updateInterval
    /\ replicas' = [n \in DOMAIN replicas |->
                      [replicas[n] EXCEPT !.txseq = reconciledTxseq(replicas[n])]]
    /\ effects' = tickEffects
    /\ UNCHANGED <<consumers, updateInterval, natsConnection, consoleErrors,
                   diskVars>>
    /\ UNCHANGED <<codecVars, feedVars, seenVars, loadVars>>

\* the undefined of getReplica
NoReplica == [txseq |-> -1, dsn |-> Nil]

\* getReplica that falls back to the first replica whenever the name is empty
getReplicaAnyFirst(dbName) ==
    IF Cardinality(DOMAIN replicas) >= 1 /\ dbName = ""
    THEN replicas[CHOOSE n \in DOMAIN replicas : TRUE]
    ELSE IF dbName \in DOMAIN replicas THEN replicas[dbName] ELSE NoReplica

\* EmbeddedReplicasManager.getReplica
getReplica(dbName) ==
    IF Cardinality(DOMAIN replicas) = 1 /\ dbName = ""
    THEN replicas[CHOOSE n \in DOMAIN replicas : TRUE]
    ELSE IF dbName \in DOMAIN replicas THEN replicas[dbName] ELSE NoReplica

\* createConnection that resolves the catalog the client had so far
createConnectionStale(dbName) ==
    IF getReplica(replicationID) = NoReplica
    THEN Nil
    ELSE getReplica(replicationID).dsn

\* EmbeddedReplicasManager.createConnection: a read-only handle on the dsn
createConnection(dbName) ==
    IF getReplica(dbName) = NoReplica THEN Nil ELSE getReplica(dbName).dsn

\* isReplicaUpdated with a strict comparison
isReplicaUpdatedStrict(dbName, seq) ==
    IF getReplica(dbName) = NoReplica THEN FALSE ELSE getReplica(dbName).txseq > seq

\* EmbeddedReplicasManager.isReplicaUpdated
isReplicaUpdated(dbName, seq) ==
    IF getReplica(dbName) = NoReplica THEN FALSE ELSE getReplica(dbName).txseq >= seq

\* -------------------------------------------------------------- HAConnection
\* The statements the connection forwards on its own account.
\* 'BEGIN'
SqlBegin == <<"B", "E", "G", "I", "N">>
\* 'COMMIT'
SqlCommit == <<"C", "O", "M", "M", "I", "T">>
\* 'ROLLBACK'
SqlRollback == <<"R", "O", "L", "L", "B", "A", "C", "K">>
\* 'PRAGMA query_only = 1' and 'PRAGMA query_only = 0'
SqlQueryOnly(readonly) ==
    <<"P", "R", "A", "G", "M", "A", " ", "q", "u", "e", "r", "y", "_", "o", "n",
      "l", "y", " ", "=", " ">> \o (IF readonly THEN <<"1">> ELSE <<"0">>)
\* 'SELECT 1'
SqlSelect1 == <<"S", "E", "L", "E", "C", "T", " ", "1">>

\* new HAConnection(options): new HAClient(options), then the replica handle
newConnection(catalog, seconds, withReplicas) ==
    /\ conn = "none"
    /\ conn' = "open"
    /\ requestStream' = 1
    /\ responsePromise' = NoCall
    /\ replicationID' = catalog
    /\ txseq' = 0
    /\ timeout' = seconds
    /\ streams' = <<NewStream>>
    /\ calls' = <<>>
    /\ replicasManager' = withReplicas
    /\ embeddedReplica' = IF withReplicas THEN createConnection(catalog) ELSE Nil
    /\ autoCommit' = TRUE
    /\ readOnly' = FALSE
    /\ awaiting' = {}
    /\ effects' = <<>>
    /\ UNCHANGED <<routed, registryVars, diskVars>>
    /\ UNCHANGED <<codecVars, feedVars, seenVars, loadVars>>

\* the condition of query and run for the local route
useReplica(sql) ==
    /\ embeddedReplica # Nil
    /\ replicasManager
    /\ isSelectQuery(sql)
    /\ isReplicaUpdated(replicationID, txseq)

\* executeOnReplica: prepare and all on the read-only handle
executeOnReplica(sql) ==
    /\ routed' = "local"
    /\ effects' = <<>>
    /\ UNCHANGED clientVars
    /\ UNCHANGED <<codecVars, feedVars, seenVars, loadVars>>

\* HAConnection.query
query(sql) ==
    /\ conn = "open"
    /\ IF useReplica(sql)
       THEN executeOnReplica(sql)
       ELSE routed' = "forward" /\ executeQuery(sql)
    /\ UNCHANGED <<conn, embeddedReplica, replicasManager, autoCommit, readOnly,
                   awaiting, registryVars, diskVars>>

\* HAConnection.execute
connExecute(sql) ==
    /\ conn = "open"
    /\ routed' = "forward"
    /\ executeUpdate(sql)
    /\ UNCHANGED <<conn, embeddedReplica, replicasManager, autoCommit, readOnly,
                   awaiting, registryVars, diskVars>>

\* HAConnection.run
run(sql) ==
    /\ conn = "open"
    /\ IF useReplica(sql)
       THEN executeOnReplica(sql)
       ELSE routed' = "forward" /\ execute(sql)
    /\ UNCHANGED <<conn, embeddedReplica, replicasManager, autoCommit, readOnly,
                   awaiting, registryVars, diskVars>>

\* A method of the connection suspended at `await this.client.execute...`:
\* call is the send it awaits, arg the argument of setAutoCommit/setReadOnly.
Awaiting(method, arg) ==
    [call |-> Len(calls) + 1, method |-> method, arg |-> arg]

\* beginTransaction, commit, rollback up to their await
beginTransaction ==
    /\ conn = "open"
    /\ executeUpdate(SqlBegin)
    /\ awaiting' = awaiting \cup {Awaiting("beginTransaction", FALSE)}
    /\ UNCHANGED <<conn, embeddedReplica, replicasManager, routed, autoCommit,
                   readOnly, registryVars, diskVars>>

commit ==
    /\ conn = "open"
    /\ executeUpdate(SqlCommit)
    /\ awaiting' = awaiting \cup {Awaiting("commit", TRUE)}
    /\ UNCHANGED <<conn, embeddedReplica, replicasManager, routed, autoCommit,
                   readOnly, registryVars, diskVars>>

rollback ==
    /\ conn = "open"
    /\ executeUpdate(SqlRollback)
    /\ awaiting' = awaiting \cup {Awaiting("rollback", TRUE)}
    /\ UNCHANGED <<conn, embeddedReplica, replicasManager, routed, autoCommit,
                   readOnly, registryVars, diskVars>>

\* setAutoCommit up to its await; it returns at once when the flag already
\* has the value, else it awaits commit() or executeUpdate('BEGIN')
setAutoCommit(value) ==
    /\ conn = "open"
    /\ IF value = autoCommit
       THEN /\ effects' = <<"return">>
            /\ UNCHANGED <<clientVars, awaiting>>
       ELSE /\ executeUpdate(IF value THEN SqlCommit ELSE SqlBegin)
            /\ awaiting' = awaiting \cup {Awaiting("setAutoCommit", value)}
    /\ UNCHANGED <<conn, embeddedReplica, replicasManager, routed, autoCommit,
                   readOnly, registryVars, diskVars>>
    /\ UNCHANGED <<codecVars, feedVars, seenVars, loadVars>>

\* setReadOnly up to its await
setReadOnly(value) ==
    /\ conn = "open"
    /\ executeUpdate(SqlQueryOnly(value))
    /\ awaiting' = awaiting \cup {Awaiting("setReadOnly", value)}
    /\ UNCHANGED <<conn, embeddedReplica, replicasManager, routed, autoCommit,
                   readOnly, registryVars, diskVars>>

\* isValid up to its await
isValid ==
    /\ conn = "open"
    /\ executeQuery(SqlSelect1)
    /\ awaiting' = awaiting \cup {Awaiting("isValid", TRUE)}
    /\ UNCHANGED <<conn, embeddedReplica, replicasManager, routed, autoCommit,
                   readOnly, registryVars, diskVars>>

\* executeUpdate that returns whatever response resolved the promise
fulfilledAnyResponse(c) == calls[c].state = "resolved"

\* executeQuery/executeUpdate after their await: the promise of send was
\* resolved and the response carries no error (else they throw)
fulfilled(c) ==
    /\ calls[c].state = "resolved"
    /\ calls[c].value.error = ""

\* rollback that leaves the flag as it is
autoCommitAfterKeptOnRollback(method, arg) ==
    CASE method = "beginTransaction" -> FALSE
      [] method = "commit" -> TRUE
      [] method = "rollback" -> autoCommit
      [] method = "setAutoCommit" -> arg
      [] OTHER -> autoCommit

\* the assignment to this.autoCommit after the await of each method
autoCommitAfter(method, arg) ==
    CASE method = "beginTransaction" -> FALSE
      [] method = "commit" -> TRUE
      [] method = "rollback" -> TRUE
      [] method = "setAutoCommit" -> arg
      [] OTHER -> autoCommit

\* the assignment to this.readOnly after the await of setReadOnly
readOnlyAfter(method, arg) ==
    IF method = "setReadOnly" THEN arg ELSE readOnly

\* isValid without its catch clause
isValidOutcomeUncaught(ok) == IF ok THEN <<"return true">> ELSE <<"throw">>

\* isValid after its await: return true, or return false from the catch
isValidOutcome(ok) == IF ok THEN <<"return true">> ELSE <<"return false">>

\* The continuation of the method w once the promise it awaits has settled.
resume(w) ==
    /\ w \in awaiting
    /\ calls[w.call].state # "pending"
    /\ awaiting' = awaiting \ {w}
    /\ IF w.method = "isValid"
       THEN /\ effects' = isValidOutcome(fulfilled(w.call))
            /\ UNCHANGED <<autoCommit, readOnly>>
       ELSE IF fulfilled(w.call)
            THEN /\ autoCommit' = autoCommitAfter(w.method, w.arg)
                 /\ readOnly' = readOnlyAfter(w.method, w.arg)
                 /\ effects' = <<"return">>
            ELSE /\ effects' = <<"throw">>
                 /\ UNCHANGED <<autoCommit, readOnly>>
    /\ UNCHANGED <<clientVars, conn, embeddedReplica, replicasManager, routed,
                   registryVars, diskVars>>
    /\ UNCHANGED <<codecVars, feedVars, seenVars, loadVars>>

\* setCatalog without the test of the name
setCatalogUnchecked(catalog) ==
    /\ conn = "open"
    /\ replicationID' = catalog
    /\ embeddedReplica' = IF replicasManager
                          THEN createConnection(catalog)
                          ELSE embeddedReplica
    /\ effects' = IF replicasManager /\ embeddedReplica # Nil
                  THEN <<"embeddedReplica.close">>
                  ELSE <<>>
    /\ UNCHANGED <<requestStream, responsePromise, txseq, timeout, streams, calls,
                   conn, replicasManager, routed, autoCommit, readOnly, awaiting,
                   registryVars, diskVars>>
    /\ UNCHANGED <<codecVars, feedVars, seenVars, loadVars>>

\* HAConnection.setCatalog
setCatalog(catalog) ==
    /\ conn = "open"
    /\ IF catalog = ""
       THEN /\ effects' = <<"throw Catalog cannot be empty">>
            /\ UNCHANGED <<replicationID, embeddedReplica>>
       ELSE /\ replicationID' = catalog
            /\ embeddedReplica' = IF replicasManager
                                  THEN createConnection(catalog)
                                  ELSE embeddedReplica
            /\ effects' = IF replicasManager /\ embeddedReplica # Nil
                          THEN <<"embeddedReplica.close">>
                          ELSE <<>>
    /\ UNCHANGED <<requestStream, responsePromise, txseq, timeout, streams, calls,
                   conn, replicasManager, routed, autoCommit, readOnly, awaiting,
                   registryVars, diskVars>>
    /\ UNCHANGED <<codecVars, feedVars, seenVars, loadVars>>

\* ------------------------------------------------------------ the converter
\* An integer of the program (a JavaScript number holding an integer, or a
\* bigint) is its sign and its magnitude in binary, lowest bit first, with no
\* leading zero digit; zero is the empty magnitude. Bytes are 0..255.
Int64Width == 64
NumberPrecision == 53
NumberAlloc == 9
BigintAlloc == 11
VarintTag == 8
GroupBits == 7
Continuation == 128

RECURSIVE magnitude(_)
magnitude(b) ==
    IF b = <<>> THEN <<>>
    ELSE IF b[Len(b)] = 0 THEN magnitude(SubSeq(b, 1, Len(b) - 1))
    ELSE b

RECURSIVE toByte(_)
toByte(b) == IF b = <<>> THEN 0 ELSE b[1] + 2 * toByte(Tail(b))

byteBits(n) == [i \in 1..GroupBits |-> (n \div (2 ^ (i - 1))) % 2]

RECURSIVE successor(_)
successor(b) ==
    IF b = <<>> THEN <<1>>
    ELSE IF b[1] = 0 THEN <<1>> \o Tail(b)
    ELSE <<0>> \o successor(Tail(b))

\* BigInt.asUintN(width, value): value modulo 2^width, in 0 .. 2^width - 1
asUintN(width, value) ==
    LET padded == [i \in 1..width |->
                      IF i <= Len(value.bits) THEN value.bits[i] ELSE 0]
        flipped == [i \in 1..width |-> 1 - padded[i]]
    IN  IF value.neg
        THEN magnitude(SubSeq(successor(flipped), 1, width))
        ELSE magnitude(padded)

\* Buffer.alloc(size), buf[offset] = byte (a store past the end is dropped),
\* buf.subarray(start, end) (end is clamped to the length)
alloc(size) == [i \in 1..size |-> 0]

store(buf, offset, byte) ==
    IF offset < Len(buf) THEN [buf EXCEPT ![offset + 1] = byte] ELSE buf

subarray(buf, start, end) ==
    SubSeq(buf, start + 1, IF end < Len(buf) THEN end ELSE Len(buf))

\* the loop of writeVarint64 on the unsigned v; the offset after the last byte
RECURSIVE writeVarint64Loop(_, _, _)
writeVarint64Loop(buf, offset, v) ==
    IF Len(v) > GroupBits
    THEN writeVarint64Loop(
             store(buf, offset, toByte(SubSeq(v, 1, GroupBits)) + Continuation),
             offset + 1,
             SubSeq(v, GroupBits + 1, Len(v)))
    ELSE [buf |-> store(buf, offset, toByte(v)), offset |-> offset + 1]

writeVarint64(buf, offset, value) ==
    writeVarint64Loop(buf, offset,
                      IF value.neg THEN asUintN(Int64Width, value) ELSE value.bits)

Int64Value == "Int64Value"
UInt64Value == "UInt64Value"

TimestampValue == "Timestamp"
TimestampAlloc == 20
NanosTag == 16
MillisPerSecond == 1000
NanosPerMilli == 1000000
ByteRange == 256

\* value.getTime() of a Date: its milliseconds since the epoch
getTime(value) ==
    IF value.neg THEN 0 - toByte(value.bits) ELSE toByte(value.bits)

\* the % of the language: the remainder has the sign of the dividend
jsRemainder(a, b) == IF a >= 0 THEN a % b ELSE 0 - ((0 - a) % b)

\* BigInt(n)
RECURSIVE bitsOf(_)
bitsOf(n) == IF n = 0 THEN <<>> ELSE <<n % 2>> \o bitsOf(n \div 2)

BigInt(n) == [neg |-> n < 0, bits |-> bitsOf(IF n < 0 THEN 0 - n ELSE n)]

\* writeVarint32: the loop runs while v > 0x7f; the last store keeps the low
\* eight bits of v, as every store into a Buffer does
RECURSIVE writeVarint32(_, _, _)
writeVarint32(buf, offset, v) ==
    IF v > Continuation - 1
    THEN writeVarint32(store(buf, offset, (v % Continuation) + Continuation),
                       offset + 1, v \div Continuation)
    ELSE [buf |-> store(buf, offset, v % ByteRange), offset |-> offset + 1]

\* toAny for a Date: field 1 the seconds, field 2 the nanoseconds
toAnyDate(value) ==
    LET ms == getTime(value)
        seconds == BigInt(ms \div MillisPerSecond)          \* Math.floor
        nanos == jsRemainder(ms, MillisPerSecond) * NanosPerMilli
        first == writeVarint64(store(alloc(TimestampAlloc), 0, VarintTag), 1,
                               seconds)
        second == writeVarint32(store(first.buf, first.offset, NanosTag),
                                first.offset + 1, nanos)
    IN  [type_url |-> TimestampValue,
         value |-> subarray(second.buf, 0, second.offset)]

\* toAny for an integer number, for a bigint and for a Date
toAny(value) ==
    IF value.type = "date" THEN toAnyDate(value)
    ELSE LET size == IF value.type = "number" THEN NumberAlloc ELSE BigintAlloc
             buf == store(alloc(size), 0, VarintTag)
             written == writeVarint64(buf, 1, value)
         IN  [type_url |-> Int64Value,
              value |-> subarray(written.buf, 0, written.offset)]

\* decodeVarint(buf, offset): the groups of 7 bits up to the first byte
\* without the continuation bit, or up to the end of the buffer
RECURSIVE decodeVarintLoop(_, _)
decodeVarintLoop(buf, at) ==
    IF at >= Len(buf) THEN [bits |-> <<>>, bytesRead |-> 0]
    ELSE LET byte == buf[at + 1]
             rest == IF byte \div Continuation = 0
                     THEN [bits |-> <<>>, bytesRead |-> 0]
                     ELSE decodeVarintLoop(buf, at + 1)
         IN  [bits |-> byteBits(byte % Continuation) \o rest.bits,
              bytesRead |-> 1 + rest.bytesRead]

decodeVarint(buf, offset) ==
    LET read == decodeVarintLoop(buf, offset)
    IN  [value |-> [neg |-> FALSE, bits |-> magnitude(read.bits)],
         bytesRead |-> read.bytesRead]

\* Number(bigint): the nearest double, ties to the even significand
Number(value) ==
    LET b == value.bits
        cut == Len(b) - NumberPrecision
        low == SubSeq(b, 1, cut)
        high == SubSeq(b, cut + 1, Len(b))
        half == [i \in 1..cut |-> IF i = cut THEN 1 ELSE 0]
        up == low[cut] = 1 /\ (low # half \/ high[1] = 1)
    IN  [type |-> "number", neg |-> value.neg,
         bits |-> IF cut <= 0 THEN b
                  ELSE IF up THEN [i \in 1..cut |-> 0] \o successor(high)
                  ELSE magnitude([i \in 1..cut |-> 0] \o high)]

JsZero == [type |-> "number", neg |-> FALSE, bits |-> <<>>]

parseVarintValue(buf) ==
    IF Len(buf) < 2 THEN JsZero ELSE Number(decodeVarint(buf, 1).value)

\* fromAny for the envelopes toAny makes of integers
fromAny(any) ==
    IF any.type_url \in {Int64Value, UInt64Value}
    THEN parseVarintValue(any.value)
    ELSE NoJsValue

\* The caller converts a value (a statement parameter), the envelope travels,
\* the receiver converts it back.
encode ==
    /\ codecValue # NoJsValue
    /\ codecAny = NoAny
    /\ codecAny' = toAny(codecValue)
    /\ UNCHANGED <<codecValue, codecResult>>
    /\ UNCHANGED <<clientVars, connVars, registryVars, diskVars, effects>>
    /\ UNCHANGED <<feedVars, seenVars, loadVars>>

decode ==
    /\ codecAny.type_url \in {Int64Value, UInt64Value}
    /\ codecResult = NoJsValue
    /\ codecResult' = fromAny(codecAny)
    /\ UNCHANGED <<codecValue, codecAny>>
    /\ UNCHANGED <<clientVars, connVars, registryVars, diskVars, effects>>
    /\ UNCHANGED <<feedVars, seenVars, loadVars>>

\* ------------------------------------------------- the multiplexer on its own
\* new HAClient(options): the constructor opens the first stream.
InitMux ==
    /\ requestStream = 1
    /\ responsePromise = NoCall
    /\ replicationID \in Catalogs
    /\ txseq = 0
    /\ timeout \in Timeouts
    /\ streams = <<NewStream>>
    /\ calls = <<>>
    /\ conn = "none"
    /\ embeddedReplica = Nil
    /\ replicasManager = FALSE
    /\ routed = "none"
    /\ autoCommit = TRUE
    /\ readOnly = FALSE
    /\ awaiting = {}
    /\ replicas = EmptyMap
    /\ consumers = {}
    /\ updateInterval = FALSE
    /\ natsConnection = FALSE
    /\ consoleErrors = {}
    /\ effects = <<>>
    /\ codecIdle
    /\ feedIdle
    /\ nothingSeen
    /\ loadIdle
    /\ dir = OtherFiles
    /\ dbSeq = [f \in ReplicationIDs |-> NoRow]

MuxSend ==
    /\ Len(calls) < MaxCalls
    /\ \E sql \in ClientStatements :
          \/ executeQuery(sql)
          \/ executeUpdate(sql)
          \/ execute(sql)
    /\ UNCHANGED <<connVars, registryVars, diskVars>>

StreamData ==
    /\ \E s \in 1..Len(streams), seq \in 0..MaxSeq, error \in {"", "e"} :
          onData(s, seq, error)
    /\ UNCHANGED <<connVars, registryVars, diskVars>>

StreamError ==
    /\ \E s \in 1..Len(streams) : onError(s)
    /\ UNCHANGED <<connVars, registryVars, diskVars>>

StreamEnd ==
    /\ \E s \in 1..Len(streams) : onEnd(s)
    /\ UNCHANGED <<connVars, registryVars, diskVars>>

TimerFires ==
    /\ \E c \in CallIds : onTimeout(c)
    /\ UNCHANGED <<connVars, registryVars, diskVars>>

NextMux == MuxSend \/ StreamData \/ StreamError \/ StreamEnd \/ TimerFires

SpecMux == InitMux /\ [][NextMux]_vars

\* The multiplexer under a timer queue that runs every callback that is due:
\* setTimeout(callback, this.timeout * 1000) of a send is not starved for as
\* long as it stays armed.
TimerOf(c) == onTimeout(c) /\ UNCHANGED <<connVars, registryVars, diskVars>>

SpecMuxTimers == SpecMux /\ \A c \in 1..MaxCalls : WF_vars(TimerOf(c))

\* ---------------------------------------------------- the registry on its own
\* The process before any load: an empty registry, a directory holding only
\* the files that are no database.
InitRegistry ==
    /\ requestStream = NoStream
    /\ responsePromise = NoCall
    /\ replicationID = ""
    /\ txseq = 0
    /\ timeout = DefaultTimeout
    /\ streams = <<>>
    /\ calls = <<>>
    /\ conn = "none"
    /\ embeddedReplica = Nil
    /\ replicasManager = FALSE
    /\ routed = "none"
    /\ autoCommit = TRUE
    /\ readOnly = FALSE
    /\ awaiting = {}
    /\ replicas = EmptyMap
    /\ consumers = {}
    /\ updateInterval = FALSE
    /\ natsConnection = FALSE
    /\ consoleErrors = {}
    /\ effects = <<>>
    /\ codecIdle
    /\ feedIdle
    /\ nothingSeen
    /\ loadIdle
    /\ dir \in {OtherFiles, OtherFiles \cup CorruptFiles}
    /\ dbSeq = [f \in ReplicationIDs |-> NoRow]

Download ==
    /\ \E id \in ReplicationIDs, override \in BOOLEAN, failed \in BOOLEAN,
          snapshot \in StatsRows :
          downloadReplica(id, override, failed, snapshot)
    /\ UNCHANGED <<clientVars, connVars, registryVars>>

Load ==
    /\ \E failing \in SUBSET ReplicationIDs : load(failing)
    /\ UNCHANGED <<clientVars, connVars>>

Close == close /\ UNCHANGED <<clientVars, connVars>>

Feed ==
    /\ \E name \in ReplicationIDs, msg \in Messages : feedDeliver(name, msg)
    /\ UNCHANGED <<clientVars, connVars>>

Reconcile == txseqUpdaterTick /\ UNCHANGED <<clientVars, connVars>>

NextRegistry == Download \/ Load \/ Close \/ Feed \/ Reconcile

SpecRegistry == InitRegistry /\ [][NextRegistry]_vars

\* ------------------------------------------------ the connection and registry
\* The process before any connection exists: the snapshot of database "a" is
\* in the directory, the registry is empty. The transport of this specification
\* is healthy: streams deliver responses and report neither 'error' nor 'end',
\* and no timer fires (SpecMux covers those).
Init ==
    /\ requestStream = NoStream
    /\ responsePromise = NoCall
    /\ replicationID = ""
    /\ txseq = 0
    /\ timeout = DefaultTimeout
    /\ streams = <<>>
    /\ calls = <<>>
    /\ conn = "none"
    /\ embeddedReplica = Nil
    /\ replicasManager = FALSE
    /\ routed = "none"
    /\ autoCommit = TRUE
    /\ readOnly = FALSE
    /\ awaiting = {}
    /\ replicas = EmptyMap
    /\ consumers = {}
    /\ updateInterval = FALSE
    /\ natsConnection = FALSE
    /\ consoleErrors = {}
    /\ effects = <<>>
    /\ codecIdle
    /\ feedIdle
    /\ nothingSeen
    /\ loadIdle
    /\ dir = OtherFiles \cup {"a"}
    /\ dbSeq = [f \in ReplicationIDs |-> NoRow]

\* Feed messages whose statement executes.
AppliedMessages ==
    [json : {TRUE}, sql : {"ok"}, stats : StatsRows, txseq : 0..MaxSeq]

RouterFeed ==
    /\ \E name \in ReplicationIDs, msg \in AppliedMessages : feedDeliver(name, msg)
    /\ UNCHANGED <<clientVars, connVars>>

NewConnection ==
    \E catalog \in Catalogs, withReplicas \in BOOLEAN :
        newConnection(catalog, DefaultTimeout, withReplicas)

Forwards == Len(calls') <= MaxForwarded

Query == \E sql \in Statements : query(sql) /\ Forwards

Execute == \E sql \in Statements : connExecute(sql) /\ Forwards

Run == \E sql \in Statements : run(sql) /\ Forwards

SetCatalog == \E catalog \in Catalogs : setCatalog(catalog)

\* load with a feed that accepts every subscription
RouterLoad == load({}) /\ UNCHANGED <<clientVars, connVars>>

Next ==
    \/ RouterLoad \/ Close \/ RouterFeed \/ Reconcile
    \/ NewConnection \/ Query \/ Execute \/ Run \/ SetCatalog
    \/ StreamData

Spec == Init /\ [][Next]_vars

\* ------------------------------------------- the methods of the connection
\* The process before any connection exists, as for Spec; the connection is
\* made for database "a" without embedded replicas. It then issues its own
\* forwarded statements, and the transport answers them, reports an error or
\* lets their timers fire.
InitConn == Init

ConnNew ==
    \E catalog \in {"a"} : newConnection(catalog, DefaultTimeout, FALSE)

Sends == Len(calls') <= MaxCalls

BeginTransaction == beginTransaction /\ Sends

Commit == commit /\ Sends

Rollback == rollback /\ Sends

SetAutoCommit == \E value \in BOOLEAN : setAutoCommit(value) /\ Sends

SetReadOnly == \E value \in BOOLEAN : setReadOnly(value) /\ Sends

IsValid == isValid /\ Sends

Resume == \E w \in awaiting : resume(w)

NextConn ==
    \/ ConnNew
    \/ BeginTransaction \/ Commit \/ Rollback \/ SetAutoCommit \/ SetReadOnly
    \/ IsValid \/ Resume
    \/ StreamData \/ StreamError \/ TimerFires

SpecConn == InitConn /\ [][NextConn]_vars

\* ------------------------------------------------------- the catalog switch
\* The process before any connection exists, the snapshots of both databases
\* in the directory. The registry is loaded and closed, a connection is made
\* with or without embedded replicas, forwards a statement that changes one of
\* its flags, and switches its catalog.
InitCatalog ==
    /\ requestStream = NoStream
    /\ responsePromise = NoCall
    /\ replicationID = ""
    /\ txseq = 0
    /\ timeout = DefaultTimeout
    /\ streams = <<>>
    /\ calls = <<>>
    /\ conn = "none"
    /\ embeddedReplica = Nil
    /\ replicasManager = FALSE
    /\ routed = "none"
    /\ autoCommit = TRUE
    /\ readOnly = FALSE
    /\ awaiting = {}
    /\ replicas = EmptyMap
    /\ consumers = {}
    /\ updateInterval = FALSE
    /\ natsConnection = FALSE
    /\ consoleErrors = {}
    /\ effects = <<>>
    /\ codecIdle
    /\ feedIdle
    /\ nothingSeen
    /\ loadIdle
    /\ dir = OtherFiles \cup ReplicationIDs
    /\ dbSeq = [f \in ReplicationIDs |-> NoRow]

CatalogBegin == beginTransaction /\ Forwards

CatalogReadOnly == setReadOnly(TRUE) /\ Forwards

NextCatalog ==
    \/ RouterLoad \/ Close \/ NewConnection \/ SetCatalog
    \/ CatalogBegin \/ CatalogReadOnly \/ Resume \/ StreamData

SpecCatalog == InitCatalog /\ [][NextCatalog]_vars

\* ------------------------------------------- reads after observed writes
\* The process before any connection exists, as for Spec. The registry is
\* loaded, a connection is made for database "a" with embedded replicas, it
\* forwards writes and reads, the authority answers them, and the feed brings
\* the replica forward.
MaxObserved == 2

Observes == Len(calls') <= MaxObserved

StaleConnection == newConnection("a", DefaultTimeout, TRUE)

StaleWrite == connExecute(SqlInsert) /\ Observes

StaleRead == query(SqlSelect) /\ Observes

StaleData ==
    /\ \E s \in 1..Len(streams), seq \in 0..MaxSeq : onData(s, seq, "")
    /\ UNCHANGED <<connVars, registryVars, diskVars>>

StaleFeed ==
    /\ \E msg \in AppliedMessages : feedDeliver("a", msg)
    /\ UNCHANGED <<clientVars, connVars>>

NextStale ==
    \/ RouterLoad \/ StaleConnection \/ StaleWrite \/ StaleRead
    \/ StaleData \/ StaleFeed

SpecStale == Init /\ [][NextStale]_vars

\* --------------------------------------------------- the feed loops alone
\* The process before any load, the snapshots of both databases in the
\* directory. The registry is loaded, the consumer hands out messages
\* published for either topic, and the loops of the two replicas run.
MaxDeliveries == 3

FeedMessages ==
    [json : {TRUE}, sql : {"ok", "bad"}, stats : {NoRow}, txseq : 1..MaxSeq,
     topic : ReplicationIDs]

Consume ==
    /\ lastDelivery < MaxDeliveries
    /\ \E name \in ReplicationIDs, msg \in FeedMessages : consume(name, msg)
    /\ UNCHANGED <<clientVars, connVars>>

LoopNext ==
    /\ \E name \in ReplicationIDs : loopNext(name)
    /\ UNCHANGED <<clientVars, connVars>>

LoopSettle ==
    /\ \E name \in ReplicationIDs : loopSettle(name)
    /\ UNCHANGED <<clientVars, connVars>>

NextFeed == RouterLoad \/ Consume \/ LoopNext \/ LoopSettle

SpecFeed == InitCatalog /\ [][NextFeed]_vars

\* ------------------------------------------------------ the converter alone
\* The integers converted: 2^k and 2^k - 1 for these k, of either sign, kept
\* when they lie in the signed 64-bit range; as a number when a double holds
\* them exactly, and as a bigint.
Exponents == {0, 1, 6, 7, 8, 14, 21, 31, 52, 53, 55, 56, 62, 63}

Magnitudes ==
    {[i \in 1..(k + 1) |-> IF i = k + 1 THEN 1 ELSE 0] : k \in Exponents}
       \cup {[i \in 1..k |-> 1] : k \in Exponents}

inInt64(neg, b) ==
    IF neg
    THEN b # <<>> /\ (Len(b) < Int64Width
                       \/ b = [i \in 1..Int64Width |-> IF i = Int64Width THEN 1 ELSE 0])
    ELSE Len(b) < Int64Width

\* Number.isInteger holds of it and no digit is lost: from its lowest set bit
\* to its highest it spans at most the precision of a double
isExactNumber(b) ==
    \A i \in 1..Len(b) : b[i] = 1 => Len(b) - i < NumberPrecision

CodecValues ==
    {[type |-> t, neg |-> n, bits |-> b] :
        t \in {"number", "bigint"}, n \in BOOLEAN,
        b \in Magnitudes}

\* The instants converted, in milliseconds before and after the epoch.
Millis == {0, 1, 999, 1000, 1500, 86400000}

DateValues ==
    {[type |-> "date", neg |-> n, bits |-> bitsOf(m)] :
        n \in BOOLEAN, m \in Millis} \ {[type |-> "date", neg |-> TRUE,
                                          bits |-> <<>>]}

InitCodec ==
    /\ requestStream = NoStream
    /\ responsePromise = NoCall
    /\ replicationID = ""
    /\ txseq = 0
    /\ timeout = DefaultTimeout
    /\ streams = <<>>
    /\ calls = <<>>
    /\ conn = "none"
    /\ embeddedReplica = Nil
    /\ replicasManager = FALSE
    /\ routed = "none"
    /\ autoCommit = TRUE
    /\ readOnly = FALSE
    /\ awaiting = {}
    /\ replicas = EmptyMap
    /\ consumers = {}
    /\ updateInterval = FALSE
    /\ natsConnection = FALSE
    /\ consoleErrors = {}
    /\ effects = <<>>
    /\ dir = OtherFiles
    /\ dbSeq = [f \in ReplicationIDs |-> NoRow]
    /\ codecValue \in {v \in CodecValues :
                          /\ inInt64(v.neg, v.bits)
                          /\ v.type = "number" => isExactNumber(v.bits)}
                          \cup DateValues
    /\ codecAny = NoAny
    /\ codecResult = NoJsValue
    /\ feedIdle
    /\ nothingSeen
    /\ loadIdle

NextCodec == encode \/ decode

SpecCodec == InitCodec /\ [][NextCodec]_vars

\* ===================================================================== claims
\* C1: for one HAClient two send calls are never outstanding at the same time;
\* a second send writes its request only after the earlier call has settled.
C1_AtMostOneOutstanding ==
    Cardinality({c \in CallIds : Pending(c)}) <= 1

\* The read the claims on routing speak of: the replica getReplica finds for
\* the current catalog is registered and its tracked sequence is at least the
\* last sequence the client observed.
ReplicaRegisteredAndFresh ==
    /\ getReplica(replicationID) # NoReplica
    /\ getReplica(replicationID).txseq >= txseq

\* The statements of the model that isSelectQuery classifies as reads.
ReadStatements == {sql \in Statements : isSelectQuery(sql)}

C3_TxseqNeverDecreases == [][txseq' >= txseq]_vars

\* C4: a call sent after every earlier call has settled (so after an earlier
\* call's timeout) is resolved only with the response to its own request,
\* never with the late response to a call that timed out.
C4_ResponseOfOwnRequest ==
    \A c \in CallIds :
        (calls[c].serial /\ calls[c].state = "resolved") => calls[c].value.req = c

\* C5: applying a feed message never lowers the tracked sequence of a replica.
C5_FeedNeverLowersTxseq ==
    [][\A name \in ReplicationIDs, msg \in Messages :
          (name \in DOMAIN replicas /\ feedDeliver(name, msg))
              => replicas'[name].txseq >= replicas[name].txseq]_vars

\* Statements that change the database.
WriteStatements == {SqlInsert, SqlWithDelete}

\* C6: every write statement issued through query, execute or run, and every
\* statement not classified as a read, is forwarded to the authority and never
\* executed against the local replica.
C6_WritesAlwaysForwarded ==
    [][\A sql \in Statements :
          /\ sql \in WriteStatements \/ ~isSelectQuery(sql)
          /\ query(sql) \/ connExecute(sql) \/ run(sql)
          => routed' = "forward"]_vars

\* C7: a pending request is settled exactly once and then discarded: once it
\* has settled its record is no longer installed as the awaiting party, and no
\* later event settles it again.
C7_SettledOnceThenDiscarded ==
    \A c \in CallIds :
        /\ calls[c].state # "pending" => responsePromise # c
        /\ calls[c].settles <= 1

\* C8: when a stream reports an error while calls written to it are pending,
\* each of them is rejected with the transport error.
C8_ErrorRejectsPendingCall ==
    [][\A s \in 1..Len(streams) :
          (~streams[s].errored /\ streams'[s].errored)
              => \A c \in CallIds :
                    (Pending(c) /\ calls[c].stream = s)
                        => /\ calls'[c].state = "rejected"
                           /\ calls'[c].value.kind = "transport"]_vars

\* C9: after a transport error the stream handle is dropped, so a send never
\* writes its request to a stream that has reported an error.
C9_SendNeverWritesToErroredStream ==
    [][Len(calls') > Len(calls)
          => ~streams'[calls'[Len(calls')].stream].errored]_vars

\* C10: when the timer of a pending call fires, that call is rejected with a
\* timeout error naming the configured seconds, and the stream handle and the
\* streams are left as they were.
C10_TimeoutRejectsCallerOnly ==
    [][\A c \in CallIds :
          (Pending(c) /\ calls[c].timer = "armed" /\ calls'[c].timer = "fired")
              => /\ calls'[c].state = "rejected"
                 /\ calls'[c].value.kind = "timeout"
                 /\ calls'[c].value.seconds = timeout
                 /\ requestStream' = requestStream
                 /\ streams' = streams
                 /\ \A d \in CallIds \ {c} : calls'[d] = calls[d]]_vars

\* C10 witness: a call has timed out and the stream it was written to is still
\* the open stream of the client.
C10_Witness ==
    \E c \in CallIds :
        /\ calls[c].state = "rejected"
        /\ calls[c].value.kind = "timeout"
        /\ requestStream = calls[c].stream
        /\ ~streams[requestStream].ended
        /\ ~streams[requestStream].errored

\* C11: a feed message whose sequence is not newer than the tracked sequence
\* of the replica is not reapplied: its delivery leaves the local database as
\* it was.
C11_StaleMessageNotReapplied ==
    [][\A name \in ReplicationIDs, msg \in Messages :
          (/\ name \in DOMAIN replicas
           /\ msg.txseq # 0
           /\ msg.txseq <= replicas[name].txseq
           /\ feedDeliver(name, msg))
              => dbSeq' = dbSeq]_vars

\* whether the sequence of effects es holds the call e
Has(es, e) == \E i \in 1..Len(es) : es[i] = e

\* C12: a feed message whose application fails is not acknowledged and the
\* loop keeps running; a message whose application returns is applied and
\* acknowledged, also when earlier messages of the feed have failed.
C12_FailedMessageNotAcked ==
    [][\A name \in ReplicationIDs, msg \in Messages :
          feedDeliver(name, msg)
              => /\ consumers' = consumers
                 /\ applyThrows(name, msg) => ~Has(effects', "msg.ack")
                 /\ ~applyThrows(name, msg)
                       => /\ Has(effects', "msg.ack")
                          /\ (name \in DOMAIN replicas /\ msg.txseq # 0)
                                => replicas'[name].txseq = msg.txseq]_vars

\* C12 witness: after a message of the feed has failed, a later message has
\* been applied and acknowledged.
C12_Witness ==
    /\ "apply" \in consoleErrors
    /\ Has(effects, "msg.ack")
    /\ \E name \in consumers : replicas[name].txseq > 0

\* C13: a connection starts in autocommit; when beginTransaction succeeds it
\* has forwarded BEGIN and getAutoCommit() is false; when commit or rollback
\* succeeds it has forwarded COMMIT or ROLLBACK and getAutoCommit() is true,
\* whatever the flag was before.
C13_TransactionFlag ==
    [][/\ (conn = "none" /\ conn' = "open") => autoCommit'
       /\ \A w \in awaiting :
             (resume(w) /\ fulfilled(w.call))
                 => LET request == calls[w.call].request
                    IN  /\ w.method = "beginTransaction"
                             => (request.sql = SqlBegin /\ ~autoCommit')
                        /\ w.method = "commit"
                             => (request.sql = SqlCommit /\ autoCommit')
                        /\ w.method = "rollback"
                             => (request.sql = SqlRollback /\ autoCommit')]_vars

\* C13 witness: the connection has left autocommit by a beginTransaction that
\* succeeded and has returned to it by a rollback that succeeded.
C13_Witness ==
    /\ Len(calls) = 2
    /\ calls[1].request.sql = SqlBegin /\ fulfilled(1)
    /\ calls[2].request.sql = SqlRollback /\ fulfilled(2)
    /\ calls[2].serial
    /\ awaiting = {}
    /\ autoCommit
    /\ effects = <<"return">>

\* C14: setCatalog with the empty name throws the empty-catalog error and
\* leaves the client's catalog, the local replica handle, the autocommit and
\* read-only flags and the tracked sequence as they were.
C14_EmptyCatalogChangesNothing ==
    [][setCatalog("")
          => /\ effects' = <<"throw Catalog cannot be empty">>
             /\ replicationID' = replicationID
             /\ embeddedReplica' = embeddedReplica
             /\ autoCommit' = autoCommit
             /\ readOnly' = readOnly
             /\ txseq' = txseq]_vars

\* C14 witness: the empty name was refused on a connection that holds a
\* replica handle, is in a transaction and has observed a sequence.
C14_Witness ==
    /\ Has(effects, "throw Catalog cannot be empty")
    /\ replicationID # ""
    /\ embeddedReplica # Nil
    /\ ~autoCommit
    /\ txseq > 0

\* C15 (as stated): after setCatalog(c) with a non-empty c the client's catalog
\* is c, the previous replica handle (if any) has been closed, and the handle
\* of the connection is one onto the replica registered for c, or none when no
\* replica is registered for c.
C15_HandleOfRegisteredReplica ==
    [][\A c \in Catalogs \ {""} :
          setCatalog(c)
              => /\ replicationID' = c
                 /\ embeddedReplica # Nil => Has(effects', "embeddedReplica.close")
                 /\ embeddedReplica' =
                       (IF c \in DOMAIN replicas THEN replicas[c].dsn ELSE Nil)]_vars

\* C15 (amended): after setCatalog(c) with a non-empty c the client's catalog
\* is c and requests are sent with it, the previous replica handle (if any) has
\* been closed, and, on a connection configured with embedded replicas, the
\* handle is one onto the replica registered for c, or none when no replica is
\* registered for c; a connection not configured with them holds no handle.
C15_HandleOfConfiguredConnection ==
    [][/\ \A c \in Catalogs \ {""} :
             setCatalog(c)
                 => /\ replicationID' = c
                    /\ embeddedReplica # Nil
                          => Has(effects', "embeddedReplica.close")
                    /\ embeddedReplica' =
                          (IF replicasManager /\ c \in DOMAIN replicas
                           THEN replicas[c].dsn
                           ELSE Nil)
       /\ Len(calls') > Len(calls)
             => calls'[Len(calls')].request.replication_id = replicationID]_vars

\* C15 witness: a connection that held a replica handle has switched to
\* catalog "b": the old handle was closed and the new handle is onto the
\* replica registered for "b".
C15_Witness ==
    /\ Has(effects, "embeddedReplica.close")
    /\ replicationID = "b"
    /\ embeddedReplica = "b"
    /\ "b" \in DOMAIN replicas

\* C16: isValid forwards the query SELECT 1 and never throws: it returns true
\* when the query was answered without an error, and false when it timed out,
\* the transport reported an error or the authority answered with an error.
C16_IsValidNeverThrows ==
    [][\A w \in awaiting :
          (w.method = "isValid" /\ resume(w))
              => LET call == calls[w.call]
                 IN  /\ call.request.sql = SqlSelect1
                     /\ call.request.type = QUERY_TYPE_EXEC_QUERY
                     /\ effects' \in {<<"return true">>, <<"return false">>}
                     /\ (call.value.kind = "response" /\ call.value.error = "")
                           => effects' = <<"return true">>
                     /\ (call.value.kind = "response" /\ call.value.error # "")
                           => effects' = <<"return false">>
                     /\ call.value.kind \in {"timeout", "transport"}
                           => effects' = <<"return false">>]_vars

\* C16 witness: isValid has returned false for a probe that timed out.
C16_Witness ==
    /\ effects = <<"return false">>
    /\ \E c \in CallIds :
          /\ calls[c].request.sql = SqlSelect1
          /\ calls[c].value.kind = "timeout"
          /\ \A w \in awaiting : w.call # c

\* The names getReplica is asked for: the catalogs and a name never registered.
LookupNames == Catalogs \cup {"c"}

\* C17: with exactly one replica registered, getReplica of the empty name is
\* that replica; in every other case getReplica is the replica registered
\* under exactly that name, or nothing: the empty name misses with no or with
\* several replicas, and a name that is not registered misses also when one
\* replica is registered.
C17_GetReplica ==
    \A name \in LookupNames :
        LET found == getReplica(name)
            registered == DOMAIN replicas
        IN  /\ (name = "" /\ Cardinality(registered) = 1)
                  => \E n \in registered : found = replicas[n] /\ found.dsn = n
            /\ (name = "" /\ Cardinality(registered) # 1) => found = NoReplica
            /\ (name # "" /\ name \in registered)
                  => (found = replicas[name] /\ found.dsn = name)
            /\ (name # "" /\ name \notin registered) => found = NoReplica

\* C17 witness: one replica is registered, the empty name finds it and the
\* name of the other database misses.
C17_Witness ==
    /\ DOMAIN replicas = {"a"}
    /\ getReplica("") = replicas["a"]
    /\ getReplica("b") = NoReplica
    /\ replicas["a"].txseq > 0

\* The place of each call of close in the order the shutdown prescribes.
ShutdownRank(e) ==
    CASE e = "clearInterval" -> 1
      [] e = "consumer.stop" -> 2
      [] e = "db.close" -> 3
      [] e = "natsConnection.close" -> 4
      [] OTHER -> 0

Unregistered == {f \in dir : f \notin DOMAIN replicas}

C20_Int64RoundTrip ==
    codecResult # NoJsValue =>
        /\ codecResult.neg = codecValue.neg
        /\ codecResult.bits = codecValue.bits

\* C21: downloadReplica on a file that is already in the directory, without
\* override, issues no download call and leaves the directory and the file's
\* content as they were.
C21_DownloadSkipsExistingFile ==
    [][\A id \in ReplicationIDs, failed \in BOOLEAN, snapshot \in StatsRows :
          (downloadReplica(id, FALSE, failed, snapshot) /\ id \in dir) =>
              /\ ~Has(effects', "client.Download")
              /\ dir' = dir
              /\ dbSeq' = dbSeq]_vars

\* a download was skipped for a file whose content differs from the snapshot
\* the authority would have sent
C21_Witness ==
    /\ effects = <<"return">>
    /\ \E id \in ReplicationIDs : id \in dir /\ dbSeq[id] # NoRow

\* the applications the loop of one replica has begun and finished, in order
eventsOf(name) ==
    LET ofName(e) == e.replica = name
    IN  SelectSeq(journal, ofName)

\* C22: within the feed of one replica the messages are applied in the order
\* of their delivery and one at a time: the applications of a loop begin in
\* increasing delivery number, and each has finished before the next begins.
C22_AppliedInDeliveryOrder ==
    \A name \in ReplicationIDs :
        LET ev == eventsOf(name)
        IN  \A i \in 1..Len(ev) :
               IF i % 2 = 1
               THEN /\ ev[i].event = "begin"
                    /\ i > 2 => ev[i].k > ev[i - 2].k
                    /\ \A j \in 1..Len(inbox[name]) : inbox[name][j].k > ev[i].k
               ELSE /\ ev[i].event = "end"
                    /\ ev[i].k = ev[i - 1].k

\* one loop has finished two applications while a third delivery waits
C22_Witness ==
    \E name \in ReplicationIDs :
        /\ Len(eventsOf(name)) = 4
        /\ inbox[name] # <<>>

\* C25: the subscription of a replica is keyed by the topic of its file name:
\* a message published for one replica's topic is applied to that replica
\* only, so every application a loop has begun is of a message of its topic.
C25_AppliedToOwnTopicOnly ==
    \A i \in 1..Len(journal) : journal[i].topic = journal[i].replica

\* C30: the tracked sequence of a replica advances to the sequence of a
\* message only once the statement of that message has executed: the
\* application of a message whose statement fails leaves the tracked
\* sequences and the databases as they were, and an application that changes
\* the tracked sequence is of a statement that executed and sets the sequence
\* the message carries.
C30_TxseqOnlyAfterSuccess ==
    [][\A name \in ReplicationIDs :
          loopNext(name) =>
              LET msg == Head(inbox[name]).msg
              IN  /\ msg.sql = "bad" => (replicas' = replicas /\ dbSeq' = dbSeq)
                  /\ replicas' # replicas =>
                        /\ msg.sql # "bad"
                        /\ replicas'[name].txseq = msg.txseq]_vars

\* the application of a message that carries a new sequence has failed, and
\* the replica still has the sequence it was loaded with
C30_Witness ==
    \E name \in ReplicationIDs :
        /\ loopAt[name].at = "await"
        /\ loopAt[name].threw
        /\ loopAt[name].d.msg.txseq > replicas[name].txseq

\* C23: one tick of the reconciliation sets the tracked sequence of every
\* registered replica to the received_seq its database holds; a replica whose
\* read fails or finds no row keeps its tracked sequence, and the others are
\* reconciled all the same.
C23_TickReconcilesEachReplica ==
    [][txseqUpdaterTick =>
          /\ DOMAIN replicas' = DOMAIN replicas
          /\ \A n \in DOMAIN replicas :
                replicas'[n].txseq =
                    IF dbSeq[replicas[n].dsn] # NoRow
                    THEN dbSeq[replicas[n].dsn]
                    ELSE replicas[n].txseq]_vars

\* a tick has read two replicas: one holds a row and now tracks it, the
\* other holds none and keeps the sequence a feed message gave it
C23_Witness ==
    /\ Len(effects) = 2 /\ Has(effects, "db.prepare.get")
    /\ \E n, m \in DOMAIN replicas :
          /\ dbSeq[replicas[n].dsn] # NoRow
          /\ replicas[n].txseq = dbSeq[replicas[n].dsn]
          /\ dbSeq[replicas[m].dsn] = NoRow
          /\ replicas[m].txseq > 0

\* C24: the freshness check of a connection judges the replica of its current
\* catalog by the last sequence observed from the authority for that catalog:
\* its verdict is the one that sequence gives, also after setCatalog has
\* switched away from a catalog for which a sequence was observed.
C24_FreshnessByOwnCatalog ==
    (conn = "open" /\ replicasManager) =>
        (isReplicaUpdated(replicationID, txseq)
            <=> isReplicaUpdated(replicationID, observedFor[replicationID]))

\* the send a method awaited has failed: its promise was rejected (by its
\* timer or by a transport error) or resolved with a response that reports
\* an error
sendFailed(c) ==
    \/ calls[c].state = "rejected"
    \/ calls[c].state = "resolved" /\ calls[c].value.error # ""

FlagMethods ==
    {"beginTransaction", "commit", "rollback", "setAutoCommit", "setReadOnly"}

\* C29: when the statement beginTransaction, commit, rollback, setAutoCommit
\* or setReadOnly forwarded has failed, the method throws and leaves the
\* autocommit and read-only flags as they were.
C29_FailedOperationKeepsFlags ==
    [][\A w \in awaiting :
          (resume(w) /\ w.method \in FlagMethods /\ sendFailed(w.call)) =>
              /\ effects' = <<"throw">>
              /\ autoCommit' = autoCommit
              /\ readOnly' = readOnly]_vars

\* a method has thrown after each kind of failure: a timer that fired, a
\* transport error, an error reported by the authority
C29_Witness ==
    /\ effects = <<"throw">>
    /\ awaiting = {}
    /\ Len(calls) = 2
    /\ \A c \in CallIds : sendFailed(c)
    /\ \E c \in CallIds : calls[c].value.error # ""
    /\ \E c \in CallIds : calls[c].value.kind \in {"timeout", "transport"}

\* C27: a read is never served from the local replica while the tracked
\* sequence of that replica is lower than the largest sequence any response
\* the connection received has carried.
C27_LocalReadNotStale ==
    [][(query(SqlSelect) /\ routed' = "local") =>
          getReplica(replicationID).txseq >= highestSeen]_vars

\* C28: every send settles, whatever the stream does: a promise that is
\* pending has its timer armed, and, timers firing, it is resolved or
\* rejected in the end.
C28_EverySendSettles ==
    \A c \in 1..MaxCalls :
        /\ []((c \in CallIds /\ Pending(c)) => calls[c].timer = "armed")
        /\ (c \in CallIds /\ Pending(c)) ~> (c \in CallIds /\ ~Pending(c))

\* the timer of a send has rejected it after a later send had replaced its
\* record and the stream had answered nothing
C28_Witness ==
    /\ Len(calls) = 2
    /\ calls[1].state = "rejected"
    /\ calls[1].value.kind = "timeout"
    /\ calls[1].timer = "fired"
    /\ \A s \in 1..Len(streams) : streams[s].delivered = 0

\* The two fields of a Timestamp payload as a reader of the wire format finds
\* them: field 1 a varint holding the seconds as a 64-bit two's complement
\* number, then the tag of field 2 and a varint holding the nanoseconds.
payloadSeconds(payload) ==
    LET u == decodeVarint(payload, 1).value.bits
    IN  IF Len(u) = Int64Width
        THEN 0 - toByte(asUintN(Int64Width, [neg |-> TRUE, bits |-> u]))
        ELSE toByte(u)

payloadNanosAt(payload) == 1 + decodeVarint(payload, 1).bytesRead

payloadNanosWellFormed(payload) ==
    /\ payloadNanosAt(payload) + 1 < Len(payload)
    /\ payload[payloadNanosAt(payload) + 1] = NanosTag
    /\ payload[Len(payload)] < Continuation

payloadNanos(payload) ==
    toByte(decodeVarint(payload, payloadNanosAt(payload) + 1).value.bits)

\* C26: the Timestamp payload of every instant, those before the epoch
\* included, carries a nanosecond remainder n with 0 <= n < 1e9, and its
\* seconds and n together are the instant, to the millisecond.
C26_TimestampRemainderInRange ==
    codecAny.type_url = TimestampValue =>
        /\ payloadNanosWellFormed(codecAny.value)
        /\ payloadNanos(codecAny.value) < MillisPerSecond * NanosPerMilli
        /\ payloadNanos(codecAny.value) % NanosPerMilli = 0
        /\ payloadSeconds(codecAny.value) * MillisPerSecond
              + payloadNanos(codecAny.value) \div NanosPerMilli
              = getTime(codecValue)

\* -------------------------------------------- load calls, one per connection
\* HADataSource.getConnection awaits load on the process-wide registry before
\* it makes each connection. The calls of several getConnection overlap at
\* the awaits of load; files reach the directory by downloads meanwhile.
LoadCall == \E l \in 1..MaxLoads : loadCall(l) /\ UNCHANGED <<clientVars, connVars>>

LoadConnect ==
    /\ \E l \in 1..MaxLoads, ok \in BOOLEAN : loadConnect(l, ok)
    /\ UNCHANGED <<clientVars, connVars>>

Subscribe ==
    /\ \E l \in 1..MaxLoads, ok \in BOOLEAN : subscribeToReplication(l, ok)
    /\ UNCHANGED <<clientVars, connVars>>

LoadResume == \E l \in 1..MaxLoads : loadResume(l) /\ UNCHANGED <<clientVars, connVars>>

NextLoad == Download \/ LoadCall \/ LoadConnect \/ Subscribe \/ LoadResume

SpecLoad == InitRegistry /\ [][NextLoad]_vars

\* C31: however many load calls run on the directory, one after another or
\* overlapping at their awaits, no file ever has more than one writable
\* handle open or more than one feed subscription running, every registered
\* file has exactly one handle, and at most one reconciliation interval is
\* set.
C31_LoadIsRepeatable ==
    /\ \A f \in Files : handles[f] <= 1 /\ subscriptions[f] <= 1
    /\ \A f \in DOMAIN replicas : handles[f] = 1
    /\ timers <= 1

\* Every load call has returned, the last of them after it passed over a
\* name another call had registered, and "a" is registered and subscribed.
C31_Witness ==
    /\ \A l \in 1..MaxLoads : loadAt[l].pc = "done"
    /\ \E i \in 1..Len(effects) : effects[i] = "replicas.has"
    /\ "a" \in DOMAIN replicas
    /\ handles["a"] = 1
    /\ subscriptions["a"] = 1
    /\ timers = 1

====
